---- MODULE Spec2Model ----
(***************************************************************************)
(* State-machine model of the two tools of the repository:                 *)
(*   - live_visualreactive.py : the camera -> latent -> synthesis frame    *)
(*     loop with its recording toggle (specification Spec);                *)
(*   - live_visualreactive.py : the region split of the "--v1" strategy    *)
(*     (specification SpecRegion);                                         *)
(*   - mask.py : the mouse callback of draw_mask (specification SpecMask). *)
(* Latents are modelled by one scalar component in fixed point (the        *)
(* smoothing is elementwise), frames by their kind, number and size.       *)
(***************************************************************************)
EXTENDS Integers, Sequences, FiniteSets, TLC

VARIABLES
    \* ---- live_visual_reactive: configuration (click options)
    v0, v1, only_synth, verbose, demo_height, demo_width, display_height,
    img_resolution,
    \* ---- live_visual_reactive: run state
    pc, cam, idx, counter, recording_flag, out, writers,
    fake_z_raw, prev_fake_z, fake_w_raw, prev_fake_w, seeded,
    shown, img, key,
    \* ---- region split of the --v1 strategy
    rpc, h, w, coarse_fake_z, middle_fake_z, fine_fake_z,
    \* ---- draw_mask
    mpc, mask, drawing, ix, iy, event, ev_x, ev_y, nEvents, stampLog

cfgVars == <<v0, v1, only_synth, verbose, demo_height, demo_width,
             display_height, img_resolution>>
liveVars == <<pc, cam, idx, counter, recording_flag, out, writers,
              fake_z_raw, prev_fake_z, fake_w_raw, prev_fake_w, seeded,
              shown, img, key>>
regionVars == <<rpc, h, w, coarse_fake_z, middle_fake_z, fine_fake_z>>
maskVars == <<mpc, mask, drawing, ix, iy, event, ev_x, ev_y, nEvents, stampLog>>
vars == <<cfgVars, liveVars, regionVars, maskVars>>

----------------------------------------------------------------------------
\* Bounds of the model.
MaxFrames == 4
MaxDim == 8
MaxEvents == 4
ImgW == 12
ImgH == 10

\* Python's None (an unset option, an unbound local).
None == -1

\* Key codes of the frame loop; cv2.waitKey gives -1 when no key was pressed.
KeyEsc == 27
KeySpace == 32
NoKey == -1
Keys == {NoKey, KeyEsc, KeySpace}

\* Inputs of the run.
DemoHeights == {3, 6}
DemoWidths == {None, 5}
DisplayHeights == {None, 3}
ImgResolutions == {4}
RawLatents == {0, 10}
CamShape == <<8, 6>>

----------------------------------------------------------------------------
\* live_visual_reactive: capture and display sizes

height == demo_height
width == IF demo_width = None THEN (4 * demo_height) \div 3 ELSE demo_width
sheight == height
swidth == sheight

\* line 156: the display height used by the loop
DisplayHeight == IF display_height = None THEN img_resolution ELSE display_height

\* line 177: imutils.resize(img, height=height) keeps the aspect ratio
CameraFrame(n) ==
    [kind |-> "camera", n |-> n,
     w |-> (CamShape[1] * height) \div CamShape[2], h |-> height]

NoFrame == [kind |-> "none", n |-> 0, w |-> 0, h |-> 0]

\* lines 237-248: what is shown in the window, and what `img` holds afterwards
Display(n) ==
    IF ~only_synth
    THEN LET display_width == (4 * DisplayHeight) \div 3
             f == [kind |-> "combined", n |-> n,
                   w |-> display_width + DisplayHeight, h |-> DisplayHeight]
         IN [shown |-> f, img |-> f]
    ELSE [shown |-> [kind |-> "synth", n |-> n,
                     w |-> DisplayHeight, h |-> DisplayHeight],
          img |-> CameraFrame(n)]

\* lines 267-268: the frame size the writer is opened with
WriterSize ==
    <<IF ~only_synth THEN width + swidth ELSE img_resolution, height>>

----------------------------------------------------------------------------
\* live_visual_reactive: smoothing

\* a/10 * prev + b/10 * cur in fixed point
EMA(a, b, prev, cur) == (a * prev + b * cur) \div 10

\* lines 191-195
averaged(cnt, prev, cur) ==
    LET p == IF cnt = 0 THEN cur ELSE prev
    IN EMA(2, 8, p, cur)

\* lines 223-227
regional(cnt, prev, cur) ==
    LET p == IF cnt = 0 THEN cur ELSE prev
    IN EMA(4, 6, p, cur)

----------------------------------------------------------------------------
\* live_visual_reactive: recording

NewWriter(size) ==
    [w |-> size[1], h |-> size[2], released |-> 0, late |-> 0, frames |-> <<>>]

\* Mutant of SpaceKey: the stop branch forgets out.release().
SpaceKeyNoRelease(rf, o, ws, size) ==
    IF ~rf
    THEN [recording_flag |-> TRUE, out |-> Len(ws) + 1,
          writers |-> Append(ws, NewWriter(size))]
    ELSE [recording_flag |-> FALSE, out |-> o, writers |-> ws]

\* lines 263-272: the space bar toggles the recording
SpaceKey(rf, o, ws, size) ==
    IF ~rf
    THEN [recording_flag |-> TRUE, out |-> Len(ws) + 1,
          writers |-> Append(ws, NewWriter(size))]
    ELSE [recording_flag |-> FALSE, out |-> o,
          writers |-> [ws EXCEPT ![o].released = @ + 1]]

\* line 275: out.write(img)
Write(ws, o, f) ==
    [ws EXCEPT ![o].frames = Append(@, f),
               ![o].late = @ + (IF ws[o].released > 0 THEN 1 ELSE 0)]

----------------------------------------------------------------------------
\* Initial states

RegionIdle ==
    /\ rpc = "off" /\ h = 0 /\ w = 0
    /\ coarse_fake_z = {} /\ middle_fake_z = {} /\ fine_fake_z = {}

MaskIdle ==
    /\ mpc = "off" /\ mask = <<>> /\ drawing = FALSE /\ ix = -1 /\ iy = -1
    /\ event = "none" /\ ev_x = -1 /\ ev_y = -1 /\ nEvents = 0
    /\ stampLog = <<>>

LiveInit ==
    /\ v0 \in BOOLEAN /\ v1 \in BOOLEAN
    /\ only_synth \in BOOLEAN /\ verbose \in BOOLEAN
    /\ demo_height \in DemoHeights /\ demo_width \in DemoWidths
    /\ display_height \in DisplayHeights /\ img_resolution \in ImgResolutions
    /\ pc = "start" /\ cam = "none" /\ idx = 0 /\ counter = 0
    /\ recording_flag = FALSE /\ out = 0 /\ writers = <<>>
    /\ fake_z_raw = None /\ prev_fake_z = None
    /\ fake_w_raw = None /\ prev_fake_w = None /\ seeded = FALSE
    /\ shown = NoFrame /\ img = NoFrame /\ key = NoKey

Init == LiveInit /\ RegionIdle /\ MaskIdle

----------------------------------------------------------------------------
\* live_visual_reactive: actions

\* lines 97-171: load the networks, open the camera, set the loop state.
\* No option is validated on the way; cv2.VideoCapture(0) may fail to open.
Setup ==
    /\ pc = "start"
    /\ pc' = "loop"
    /\ cam' \in {"open", "closed"}
    /\ idx' = 0 /\ counter' = 0 /\ recording_flag' = FALSE
    /\ UNCHANGED <<out, writers, fake_z_raw, prev_fake_z, fake_w_raw,
                   prev_fake_w, seeded, shown, img, key>>
    /\ UNCHANGED <<cfgVars, regionVars, maskVars>>

\* line 173 false, then lines 277-278
LoopExit ==
    /\ pc = "loop" /\ cam # "open"
    /\ pc' = "done" /\ cam' = "released"
    /\ UNCHANGED <<idx, counter, recording_flag, out, writers, fake_z_raw,
                   prev_fake_z, fake_w_raw, prev_fake_w, seeded, shown, img, key>>
    /\ UNCHANGED <<cfgVars, regionVars, maskVars>>

\* lines 175-177: cam.read() gives no frame and imutils.resize raises on it;
\* the exception leaves the function, nothing is released.
ReadFail ==
    /\ pc = "loop" /\ cam = "open" /\ idx < MaxFrames
    /\ idx' = idx + 1
    /\ pc' = "crashed"
    /\ UNCHANGED <<cam, counter, recording_flag, out, writers, fake_z_raw,
                   prev_fake_z, fake_w_raw, prev_fake_w, seeded, shown, img, key>>
    /\ UNCHANGED <<cfgVars, regionVars, maskVars>>

\* lines 175-233 with neither --v0 nor --v1: fake_w is never bound and
\* line 233 raises; the exception leaves the function, nothing is released.
FrameNoStrategy ==
    /\ pc = "loop" /\ cam = "open" /\ idx < MaxFrames
    /\ ~v0 /\ ~v1
    /\ idx' = idx + 1
    /\ pc' = "crashed"
    /\ UNCHANGED <<cam, counter, recording_flag, out, writers, fake_z_raw,
                   prev_fake_z, fake_w_raw, prev_fake_w, seeded, shown, img, key>>
    /\ UNCHANGED <<cfgVars, regionVars, maskVars>>

\* lines 175-275: one whole iteration of the loop. r is the latent the frame
\* yields before smoothing, fired whether more than x seconds have passed
\* since start_time, k the key cv2.waitKey returns.
Frame(r, fired, k) ==
    /\ pc = "loop" /\ cam = "open" /\ idx < MaxFrames
    /\ v0 \/ v1
    /\ idx' = idx + 1
    /\ seeded' = (counter = 0)
    /\ IF v0
       THEN /\ fake_z_raw' = r
            /\ prev_fake_z' = averaged(counter, prev_fake_z, r)
            /\ UNCHANGED <<fake_w_raw, prev_fake_w>>
       ELSE /\ fake_w_raw' = r
            /\ prev_fake_w' = regional(counter, prev_fake_w, r)
            /\ UNCHANGED <<fake_z_raw, prev_fake_z>>
    /\ shown' = Display(idx + 1).shown
    /\ img' = Display(idx + 1).img
    /\ counter' = IF fired /\ verbose THEN 0 ELSE counter + 1
    /\ key' = k
    /\ IF k = KeyEsc
       THEN /\ pc' = "done" /\ cam' = "released"
            /\ UNCHANGED <<recording_flag, out, writers>>
       ELSE LET t == IF k = KeySpace
                     THEN SpaceKey(recording_flag, out, writers, WriterSize)
                     ELSE [recording_flag |-> recording_flag, out |-> out,
                           writers |-> writers]
            IN /\ recording_flag' = t.recording_flag
               /\ out' = t.out
               /\ writers' = IF t.recording_flag
                             THEN Write(t.writers, t.out, Display(idx + 1).img)
                             ELSE t.writers
               /\ UNCHANGED <<pc, cam>>
    /\ UNCHANGED <<cfgVars, regionVars, maskVars>>

Next ==
    \/ Setup
    \/ LoopExit
    \/ ReadFail
    \/ FrameNoStrategy
    \/ \E r \in RawLatents, fired \in BOOLEAN, k \in Keys : Frame(r, fired, k)

Spec == Init /\ [][Next]_vars

----------------------------------------------------------------------------
\* Region split of the --v1 strategy (lines 204-209)

\* Python's a[start:stop] on an axis of length n: the indices it keeps
Slice(start, stop, n) ==
    LET lo == IF start > n THEN n ELSE start
        hi == IF stop > n THEN n ELSE stop
    IN {i \in 0..(n - 1) : lo <= i /\ i < hi}

\* Mutant of middle_rows: the lower half starts at the rounded-up middle.
middle_rows_ceil(hh) == Slice((hh + 1) \div 2, hh, hh)

\* line 207, rows of fake_z[:, :, :h//2, :]
coarse_rows(hh) == Slice(0, hh \div 2, hh)
\* lines 208-209, rows of fake_z[:, :, h//2:, ...]
middle_rows(hh) == Slice(hh \div 2, hh, hh)
\* line 208, columns of fake_z[:, :, h//2:, :w//2]
middle_cols(ww) == Slice(0, ww \div 2, ww)
\* line 209, columns of fake_z[:, :, h//2:, w//2:]
fine_cols(ww) == Slice(ww \div 2, ww, ww)

RegionInit ==
    /\ rpc = "features"
    /\ h \in 1..MaxDim /\ w \in 1..MaxDim
    /\ coarse_fake_z = {} /\ middle_fake_z = {} /\ fine_fake_z = {}

LiveOff ==
    /\ v0 = FALSE /\ v1 = TRUE /\ only_synth = FALSE /\ verbose = FALSE
    /\ demo_height = 3 /\ demo_width = None /\ display_height = None
    /\ img_resolution = 4
    /\ pc = "off" /\ cam = "none" /\ idx = 0 /\ counter = 0
    /\ recording_flag = FALSE /\ out = 0 /\ writers = <<>>
    /\ fake_z_raw = None /\ prev_fake_z = None
    /\ fake_w_raw = None /\ prev_fake_w = None /\ seeded = FALSE
    /\ shown = NoFrame /\ img = NoFrame /\ key = NoKey

\* lines 204-209: split the h x w feature map into the three regions
Separate ==
    /\ rpc = "features"
    /\ rpc' = "separated"
    /\ coarse_fake_z' = coarse_rows(h) \X Slice(0, w, w)
    /\ middle_fake_z' = middle_rows(h) \X middle_cols(w)
    /\ fine_fake_z' = middle_rows(h) \X fine_cols(w)
    /\ UNCHANGED <<h, w>>
    /\ UNCHANGED <<cfgVars, liveVars, maskVars>>

\* the next frame's feature map (line 184)
NextFeatures ==
    /\ rpc = "separated"
    /\ rpc' = "features"
    /\ coarse_fake_z' = {} /\ middle_fake_z' = {} /\ fine_fake_z' = {}
    /\ UNCHANGED <<h, w>>
    /\ UNCHANGED <<cfgVars, liveVars, maskVars>>

NextRegion == Separate \/ NextFeatures

InitRegion == LiveOff /\ RegionInit /\ MaskIdle

SpecRegion == InitRegion /\ [][NextRegion]_vars

----------------------------------------------------------------------------
\* draw_mask (mask.py)

\* the fixed radius of the stamp (cv2.circle's third argument)
Radius == 10

Positions == {<<0, 0>>, <<6, 5>>, <<11, 9>>, <<-4, 6>>}
Events == {"LBUTTONDOWN", "MOUSEMOVE", "LBUTTONUP", "RBUTTONDOWN"}

Cells == (0..(ImgW - 1)) \X (0..(ImgH - 1))

InDisc(p, c, r) ==
    (p[1] - c[1]) * (p[1] - c[1]) + (p[2] - c[2]) * (p[2] - c[2]) <= r * r

\* Mutant of circle: the colour is added to the cell instead of stored in it.
circle_add(m, c, r, color) ==
    [p \in DOMAIN m |-> IF InDisc(p, c, r) THEN (m[p] + color) % 256 ELSE m[p]]

\* cv2.circle(mask, (x, y), r, (color), -1): a filled disc, clipped to the
\* buffer, every cell of it set to the colour
circle(m, c, r, color) ==
    [p \in DOMAIN m |-> IF InDisc(p, c, r) THEN color ELSE m[p]]

\* Mutant of draw: a move stamps whether or not the button is down.
draw_always(e, x, y, st) ==
    IF e = "LBUTTONDOWN"
    THEN [st EXCEPT !.drawing = TRUE, !.ix = x, !.iy = y]
    ELSE IF e = "MOUSEMOVE"
    THEN [st EXCEPT !.mask = circle(st.mask, <<x, y>>, Radius, 1)]
    ELSE IF e = "LBUTTONUP"
    THEN [st EXCEPT !.drawing = FALSE,
                    !.mask = circle(st.mask, <<x, y>>, Radius, 1)]
    ELSE st

\* lines 17-27: the mouse callback
draw(e, x, y, st) ==
    IF e = "LBUTTONDOWN"
    THEN [st EXCEPT !.drawing = TRUE, !.ix = x, !.iy = y]
    ELSE IF e = "MOUSEMOVE"
    THEN IF st.drawing
         THEN [st EXCEPT !.mask = circle(st.mask, <<x, y>>, Radius, 1)]
         ELSE st
    ELSE IF e = "LBUTTONUP"
    THEN [st EXCEPT !.drawing = FALSE,
                    !.mask = circle(st.mask, <<x, y>>, Radius, 1)]
    ELSE st

\* lines 11-15 and 29-30
MaskInit ==
    /\ mpc = "editing"
    /\ mask = [p \in Cells |-> 0]
    /\ drawing = FALSE /\ ix = -1 /\ iy = -1
    /\ event = "none" /\ ev_x = -1 /\ ev_y = -1 /\ nEvents = 0
    /\ stampLog = <<>>

\* one call of the callback, made by cv2.waitKey (line 37) for a mouse event;
\* stampLog records the positions of the move-while-drawing and release events
Mouse(e, x, y) ==
    /\ mpc = "editing" /\ nEvents < MaxEvents
    /\ LET st == draw(e, x, y,
                      [mask |-> mask, drawing |-> drawing, ix |-> ix, iy |-> iy])
       IN /\ mask' = st.mask /\ drawing' = st.drawing
          /\ ix' = st.ix /\ iy' = st.iy
    /\ event' = e /\ ev_x' = x /\ ev_y' = y
    /\ nEvents' = nEvents + 1
    /\ stampLog' = IF (e = "MOUSEMOVE" /\ drawing) \/ e = "LBUTTONUP"
                   THEN Append(stampLog, <<x, y>>)
                   ELSE stampLog
    /\ UNCHANGED mpc
    /\ UNCHANGED <<cfgVars, liveVars, regionVars>>

\* lines 38-42: 'q' ends the session and the buffer is returned
Finish ==
    /\ mpc = "editing"
    /\ mpc' = "returned"
    /\ UNCHANGED <<mask, drawing, ix, iy, event, ev_x, ev_y, nEvents, stampLog>>
    /\ UNCHANGED <<cfgVars, liveVars, regionVars>>

NextMask ==
    \/ \E e \in Events, p \in Positions : Mouse(e, p[1], p[2])
    \/ Finish

InitMask == LiveOff /\ RegionIdle /\ MaskInit

SpecMask == InitMask /\ [][NextMask]_vars

----------------------------------------------------------------------------
\* Properties of the frame loop (checked under Spec)

\* a step that is one iteration of the loop run to its end (line 275)
IterStep == idx' = idx + 1 /\ pc' # "crashed"

SameFrames(i) == writers'[i].frames = writers[i].frames

C1_Inv ==
    /\ \A i \in 1..Len(writers) :
          /\ writers[i].released <= 1
          /\ writers[i].late = 0
          /\ (~recording_flag => writers[i].released = 1)
    /\ recording_flag => /\ out = Len(writers)
                         /\ writers[out].released = 0

C1_Step ==
    IterStep =>
      /\ (key' = KeySpace /\ ~recording_flag) =>
            /\ recording_flag'
            /\ Len(writers') = Len(writers) + 1
            /\ out' = Len(writers')
            /\ writers'[out'].released = 0
      /\ (key' = KeySpace /\ recording_flag) =>
            /\ ~recording_flag'
            /\ Len(writers') = Len(writers)
            /\ writers'[out].released = writers[out].released + 1
      /\ ~recording_flag' =>
            \A i \in 1..Len(writers) : SameFrames(i)
      /\ \A i \in 1..Len(writers) :
            ~SameFrames(i) => (i = out' /\ writers'[i].released = 0)

\* C1: a space press while idle opens a writer and enters recording, a space
\* press while recording releases that writer and returns to idle, so that
\* in idle every writer opened so far has been released exactly once; no
\* frame is written in an iteration that ends idle; every write goes to a
\* writer that is open (opened earlier, not yet released).
C1_RecordingLifecycle == [](C1_Inv) /\ [][C1_Step]_vars

\* C1 witness: two toggles were made, a frame was recorded in between, and
\* the loop is idle again with that one writer released.
C1_Witness ==
    /\ pc = "loop" /\ key = KeySpace /\ ~recording_flag
    /\ Len(writers) = 1
    /\ writers[1].released = 1
    /\ Len(writers[1].frames) >= 1

\* C2: when the loop has ended and the function returned, the camera and
\* every writer opened during the run have been released.
C2_AllReleasedAtExit ==
    pc = "done" =>
      /\ cam = "released"
      /\ \A i \in 1..Len(writers) : writers[i].released >= 1

\* C3: in every iteration that ends in recording the frame appended to the
\* writer is the frame shown in the window in that iteration, in both
\* display modes.
C3_WrittenIsShown ==
    [][(IterStep /\ recording_flag') =>
          /\ Len(writers'[out'].frames) >= 1
          /\ writers'[out'].frames[Len(writers'[out'].frames)] = shown']_vars

\* C4: under --v0 the smoothed latent of frame 1 is the raw latent of frame
\* 1, and at every later frame it is 0.2 * (smoothed latent of the frame
\* before) + 0.8 * (raw latent of the frame).
C4_AveragedRecurrence ==
    [][(IterStep /\ v0) =>
          prev_fake_z' = IF idx = 0
                         THEN fake_z_raw'
                         ELSE EMA(2, 8, prev_fake_z, fake_z_raw')]_vars

\* C5: every frame appended to a writer has the width and height the writer
\* was opened with.
C5_FrameSizeIsWriterSize ==
    \A i \in 1..Len(writers) :
      \A j \in 1..Len(writers[i].frames) :
        /\ writers[i].frames[j].w = writers[i].w
        /\ writers[i].frames[j].h = writers[i].h

\* C6: with neither or both of --v0 and --v1 the camera is never opened and
\* no iteration of the loop is entered.
C6_InvalidStrategyAborts ==
    (v0 = v1) => (cam # "open" /\ idx = 0)

\* C9: the smoothing state is seeded from the current frame at the first
\* frame of the run only.
C9_SeededOnlyAtFirstFrame == seeded => idx <= 1

----------------------------------------------------------------------------
\* Properties of the region split (checked under SpecRegion)

RowsCols(a, b, c, d) ==
    {<<i, j>> \in (0..MaxDim + 1) \X (0..MaxDim + 1) :
        a <= i /\ i < b /\ c <= j /\ j < d}

\* C8: coarse = rows [0, h div 2) x all columns, middle = rows [h div 2, h)
\* x columns [0, w div 2), fine = rows [h div 2, h) x columns [w div 2, w);
\* the three are pairwise disjoint and together cover the h x w map.
C8_RegionPartition ==
    rpc = "separated" =>
      /\ coarse_fake_z = RowsCols(0, h \div 2, 0, w)
      /\ middle_fake_z = RowsCols(h \div 2, h, 0, w \div 2)
      /\ fine_fake_z = RowsCols(h \div 2, h, w \div 2, w)
      /\ coarse_fake_z \cap middle_fake_z = {}
      /\ coarse_fake_z \cap fine_fake_z = {}
      /\ middle_fake_z \cap fine_fake_z = {}
      /\ coarse_fake_z \cup middle_fake_z \cup fine_fake_z
            = (0..(h - 1)) \X (0..(w - 1))

\* C8 witness: a map with odd height and odd width has been split and all
\* three regions are non-empty.
C8_Witness ==
    /\ rpc = "separated" /\ h % 2 = 1 /\ w % 2 = 1
    /\ coarse_fake_z # {} /\ middle_fake_z # {} /\ fine_fake_z # {}

----------------------------------------------------------------------------
\* Properties of draw_mask (checked under SpecMask)

\* a step that is one call of the mouse callback
MouseStep == nEvents' = nEvents + 1

Stamped(m, c) == [p \in Cells |-> IF InDisc(p, c, Radius) THEN 1 ELSE m[p]]
InLog(c) == \E i \in 1..Len(stampLog) : stampLog[i] = c

C7_Step ==
    MouseStep =>
      /\ \A p \in Cells : mask[p] = 1 => mask'[p] = 1
      /\ (Len(stampLog') > Len(stampLog) /\ InLog(<<ev_x', ev_y'>>))
            => mask' = mask

\* C7: every cell of the mask is 0 or 1 after any sequence of events; a
\* stamp at a position already stamped leaves the buffer unchanged, and no
\* event clears a cell back to 0.
C7_MaskBinaryIdempotent ==
    [](mpc # "off" => \A p \in Cells : mask[p] \in {0, 1}) /\ [][C7_Step]_vars

\* C7 witness: the same position has been stamped twice and the buffer holds
\* both stamped and unstamped cells.
C7_Witness ==
    /\ \E i, j \in 1..Len(stampLog) : i < j /\ stampLog[i] = stampLog[j]
    /\ \E p \in Cells : mask[p] = 1
    /\ \E p \in Cells : mask[p] = 0

C10_Step ==
    MouseStep =>
      /\ event' = "LBUTTONDOWN" => (drawing' /\ mask' = mask)
      /\ (event' = "MOUSEMOVE" /\ drawing) =>
            (drawing' /\ mask' = Stamped(mask, <<ev_x', ev_y'>>))
      /\ event' = "LBUTTONUP" =>
            (~drawing' /\ mask' = Stamped(mask, <<ev_x', ev_y'>>))
      /\ (event' = "MOUSEMOVE" /\ ~drawing) => (~drawing' /\ mask' = mask)

C10_Inv ==
    mpc # "off" =>
      \A p \in Cells :
        mask[p] # 0 =>
          \E i \in 1..Len(stampLog) : InDisc(p, stampLog[i], Radius)

\* C10: a press moves to drawing; a move while drawing stamps a radius-10
\* disc at its position and stays in drawing; a release stamps one disc at
\* its position and moves to idle; a move while idle leaves the buffer
\* unchanged; so the mask is non-zero only within the radius of a position
\* reported by a move-while-drawing or a release.
C10_PointerTracker == [](C10_Inv) /\ [][C10_Step]_vars

\* C10 witness: after a press, a move that stamped and a release, a move in
\* idle has been received, and part of the buffer is still zero.
C10_Witness ==
    /\ event = "MOUSEMOVE" /\ ~drawing
    /\ Len(stampLog) >= 2
    /\ \E p \in Cells : mask[p] = 1
    /\ \E p \in Cells : mask[p] = 0

====
